---- MODULE Spec2Model ----
(***************************************************************************)
(* Model of the CAN log parser and the data-pattern analyzer of            *)
(* CANalyzer.py / analyze_log.py.                                          *)
(*                                                                         *)
(* A log line is modelled after line.strip().split(): a sequence of        *)
(* tokens.  Timestamps (Python floats, seconds) are integers counting      *)
(* ticks of 1/TicksPerSecond seconds; coverage, mean and confidence are    *)
(* exact fractions <<numerator, denominator>>.                             *)
(***************************************************************************)
EXTENDS Integers, Sequences, FiniteSets, TLC

VARIABLES
    parser_messages,   \* CANLogParser.messages / CANDataParser.messages
    messages,          \* CANDataPatternAnalyzer.messages
    by_pattern,        \* CANDataPatternAnalyzer._messages_by_pattern (insertion order)
    call,              \* the operation called last and its arguments
    result             \* what that operation returned (and printed)

vars == <<parser_messages, messages, by_pattern, call, result>>

----------------------------------------------------------------------------
(* Bounds *)

MaxTokens == 7      \* longest line (in tokens) given to the line parser alone
MaxLines == 3       \* longest log file
MaxFire == 3        \* longest fire_times list
MaxLen == 3         \* longest timestamp list given to _nearest_delta alone
MaxTs == 4          \* largest timestamp / target given to _nearest_delta alone
MaxCalls == 3       \* most parse_file calls made on one parser
MaxQueries == 2     \* most queries made on one analyzer

----------------------------------------------------------------------------
(* Python values *)

\* an optional value is <<>> (None) or <<v>>
None == <<>>
Some(v) == <<v>>
\* float('inf') as a fraction
Inf == <<1, 0>>
\* the resolution of a float timestamp: one tick is half a millisecond
TicksPerSecond == 2000

Abs(x) == IF x < 0 THEN -x ELSE x

\* s[i] of a Python list, i 0-based, negative i counted from the end
InRange(s, i) == (-Len(s) <= i) /\ (i < Len(s))
PyIndex(s, i) == IF i < 0 THEN s[Len(s) + i + 1] ELSE s[i + 1]

\* s[a:b] of a Python list, a >= 0
PySlice(s, a, b) ==
    LET n == Len(s)
        bb == IF b < 0 THEN (IF n + b < 0 THEN 0 ELSE n + b)
              ELSE (IF b > n THEN n ELSE b)
        aa == IF a > n THEN n ELSE a
    IN  IF bb <= aa THEN <<>> ELSE SubSeq(s, aa + 1, bb)

\* sorted(s, key=...) : a stable sort; Less(a, b) is key(a) < key(b)
StableSort(s, Less(_, _)) ==
    LET n == Len(s)
        pos(i) == 1 + Cardinality({j \in 1..n :
                        Less(s[j], s[i]) \/ (~Less(s[i], s[j]) /\ j < i)})
    IN  [p \in 1..n |-> s[CHOOSE i \in 1..n : pos(i) = p]]

RECURSIVE SumSeq(_)
SumSeq(s) == IF s = <<>> THEN 0 ELSE Head(s) + SumSeq(Tail(s))

\* int(token): Some(value), or None when int() raises ValueError
IntOf(tok) ==
    CASE tok = "0" -> Some(0)
      [] tok = "00" -> Some(0)
      [] tok = "1" -> Some(1)
      [] tok = "2" -> Some(2)
      [] tok = "-5" -> Some(-5)
      [] tok = "-12" -> Some(-12)
      [] tok = "100" -> Some(100)
      [] tok = "200" -> Some(200)
      [] OTHER -> None

\* float(token) in ticks: Some(value), or None when float() raises ValueError
FloatOf(tok) ==
    CASE tok = "10.000000" -> Some(10 * TicksPerSecond)
      [] tok = "10.000500" -> Some(10 * TicksPerSecond + TicksPerSecond \div 2000)
      [] tok = "10.500000" -> Some(10 * TicksPerSecond + TicksPerSecond \div 2)
      [] tok = "11.500000" -> Some(11 * TicksPerSecond + TicksPerSecond \div 2)
      [] tok = "12.000000" -> Some(12 * TicksPerSecond)
      [] tok = "20.000000" -> Some(20 * TicksPerSecond)
      [] IntOf(tok) # None -> Some(IntOf(tok)[1] * TicksPerSecond)
      [] OTHER -> None

\* "ErrorFrame" in text: the marker is looked for as a substring
HasErrorFrame(tok) == tok \in {"ErrorFrame", "xErrorFrame"}

----------------------------------------------------------------------------
(* CANMessage *)

\* ' '.join(data_bytes): the tokens with a " " between neighbours
RECURSIVE Join(_)
Join(data_bytes) ==
    IF Len(data_bytes) <= 1 THEN data_bytes
    ELSE <<Head(data_bytes), " ">> \o Join(Tail(data_bytes))

data_signature(msg) == Join(msg.data_bytes)

----------------------------------------------------------------------------
(* CANLogParser._parse_line and CANDataParser.parse_line *)

Rejected(report) == [kind |-> "none", report |-> report]
Raised(exc) == [kind |-> "raise", exc |-> exc]

\* except ValueError only
CaughtByParseLine_ValueErrorOnly == {"ValueError"}

\* the exceptions the except clause of the line parser catches
CaughtByParseLine == {"ValueError", "IndexError"}

\* the mismatch test dropped
LengthMismatch_Never(data_bytes, data_length) == FALSE

\* len(data_bytes) != data_length
LengthMismatch(data_bytes, data_length) == Len(data_bytes) # data_length

\* the body of the try block, from int(parts[0]) to the return
ParseLineBody(parts, line_num) ==
    LET channel == IntOf(parts[1])[1]
        data_length == IntOf(parts[4])[1]
    IN
    IF IntOf(parts[1]) = None \/ IntOf(parts[4]) = None THEN Raised("ValueError")
    ELSE IF Len(parts) < 4 + data_length + 2 THEN Rejected("warning")
    ELSE
      LET data_bytes == PySlice(parts, 4, 4 + data_length)
          timestamp_index == 4 + data_length
          direction_index == timestamp_index + 1
      IN
      IF ~InRange(parts, timestamp_index) THEN Raised("IndexError")
      ELSE IF FloatOf(PyIndex(parts, timestamp_index)) = None THEN Raised("ValueError")
      ELSE IF Len(parts) > direction_index /\ ~InRange(parts, direction_index)
           THEN Raised("IndexError")
      ELSE IF LengthMismatch(data_bytes, data_length) THEN Rejected("warning")
      ELSE [kind |-> "record",
            msg |-> [channel |-> channel,
                     can_id |-> parts[2],
                     format_flag |-> parts[3],
                     data_length |-> data_length,
                     data_bytes |-> data_bytes,
                     timestamp |-> FloatOf(PyIndex(parts, timestamp_index))[1],
                     direction |-> IF Len(parts) > direction_index
                                   THEN PyIndex(parts, direction_index) ELSE "",
                     raw_line |-> parts,
                     line_number |-> line_num]]

\* try: ... except (ValueError, IndexError): print; return None
ParseLineTry(parts, line_num) ==
    LET r == ParseLineBody(parts, line_num)
    IN  IF r.kind = "raise" /\ r.exc \in CaughtByParseLine
        THEN Rejected("error") ELSE r

\* CANLogParser._parse_line
_parse_line(parts, line_num) ==
    IF parts = <<>> THEN Rejected("silent")
    ELSE IF Len(parts) < 6 THEN Rejected("warning")
    ELSE ParseLineTry(parts, line_num)

\* CANDataParser.parse_line
parse_line(parts, line_num) ==
    IF parts = <<>> THEN Rejected("silent")
    ELSE IF Len(parts) >= 5 /\ (\E i \in 1..Len(parts) : parts[i] = "ErrorFrame")
         THEN Rejected("silent")
    ELSE IF Len(parts) < 6 THEN Rejected("warning")
    ELSE ParseLineTry(parts, line_num)

\* the lines numbered from 0: enumerate(file) without its start
LineParser_FromZero(which, parts, line_num) ==
    IF which = "CANLogParser" THEN _parse_line(parts, line_num - 1)
    ELSE parse_line(parts, line_num - 1)

\* self._parse_line(line, line_num) / self.parse_line(line, line_num)
LineParser(which, parts, line_num) ==
    IF which = "CANLogParser" THEN _parse_line(parts, line_num)
    ELSE parse_line(parts, line_num)

----------------------------------------------------------------------------
(* parse_file *)

\* the test of CANDataParser.parse_line in the place of the test of parse_file
LineHasErrorFrame_FiveTokens(parts) ==
    Len(parts) >= 5 /\ (\E i \in 1..Len(parts) : parts[i] = "ErrorFrame")

\* "ErrorFrame" in line
LineHasErrorFrame(parts) == \E i \in 1..Len(parts) : HasErrorFrame(parts[i])

\* the for loop of parse_file over the lines from line_num on; st is
\* [messages, error_frames, reports, raised]
RECURSIVE ParseLoop(_, _, _, _)
ParseLoop(which, lines, line_num, st) ==
    IF line_num > Len(lines) THEN st
    ELSE IF LineHasErrorFrame(lines[line_num])
    THEN ParseLoop(which, lines, line_num + 1,
                   [st EXCEPT !.error_frames = @ + 1])
    ELSE
      LET r == LineParser(which, lines[line_num], line_num)
      IN  CASE r.kind = "record" ->
                 ParseLoop(which, lines, line_num + 1,
                           [st EXCEPT !.messages = Append(@, r.msg)])
            [] r.kind = "none" ->
                 ParseLoop(which, lines, line_num + 1,
                           IF r.report = "silent" THEN st
                           ELSE [st EXCEPT !.reports =
                                    Append(@, <<line_num, r.report>>)])
            [] r.kind = "raise" ->
                 \* except Exception in parse_file: the loop is abandoned
                 [st EXCEPT !.raised = TRUE]

\* parse_file(filename); file is [exists |-> FALSE] when open() fails and
\* [exists |-> TRUE, lines |-> the lines] otherwise
parse_file(which, file) ==
    LET st0 == [messages |-> <<>>, error_frames |-> 0,
                reports |-> <<>>, raised |-> FALSE]
    IN  IF ~file.exists
        THEN [messages |-> <<>>, error_frames |-> 0, reports |-> <<>>,
              printed |-> "not found"]
        ELSE LET st == ParseLoop(which, file.lines, 1, st0)
             IN  [messages |-> st.messages,
                  error_frames |-> st.error_frames,
                  reports |-> st.reports,
                  printed |-> IF st.raised THEN "error reading"
                              ELSE "successfully parsed"]

----------------------------------------------------------------------------
(* CANDataPatternAnalyzer *)

\* __init__: the groups of _messages_by_pattern, in dict insertion order
\* (the order in which the signatures first appear in messages); a group
\* refers to the CANMessage objects of messages, here by their positions
IndexByPattern(msgs) ==
    LET firsts == {i \in 1..Len(msgs) :
                      \A j \in 1..(i - 1) :
                          data_signature(msgs[j]) # data_signature(msgs[i])}
        nth(p) == CHOOSE i \in firsts : Cardinality({j \in firsts : j < i}) = p - 1
        positions == [i \in 1..Len(msgs) |-> i]
    IN  [p \in 1..Cardinality(firsts) |->
            [pattern |-> data_signature(msgs[nth(p)]),
             refs |-> SelectSeq(positions, LAMBDA i :
                          data_signature(msgs[i]) = data_signature(msgs[nth(p)]))]]

\* self._messages_by_pattern.items(): every pattern with its messages
Items(msgs, index) ==
    [p \in 1..Len(index) |->
        [pattern |-> index[p].pattern,
         msgs |-> [k \in 1..Len(index[p].refs) |-> msgs[index[p].refs[k]]]]]

\* the while loop of _nearest_delta; lo, hi are 0-based
RECURSIVE BinarySearch(_, _, _, _)
BinarySearch(sorted_ts, target, lo, hi) ==
    IF lo < hi
    THEN LET mid == (lo + hi) \div 2
         IN  IF sorted_ts[mid + 1] < target
             THEN BinarySearch(sorted_ts, target, mid + 1, hi)
             ELSE BinarySearch(sorted_ts, target, lo, mid)
    ELSE lo

\* the last minimal element taken
MinByDistance_Last(candidates, target) ==
    LET best == CHOOSE i \in 1..Len(candidates) :
                  /\ \A j \in 1..Len(candidates) :
                        Abs(candidates[i] - target) <= Abs(candidates[j] - target)
                  /\ \A j \in (i + 1)..Len(candidates) :
                        Abs(candidates[j] - target) > Abs(candidates[i] - target)
    IN  candidates[best]

\* min(candidates, key=lambda x: abs(x - target)): the first minimal element
MinByDistance(candidates, target) ==
    LET best == CHOOSE i \in 1..Len(candidates) :
                  /\ \A j \in 1..Len(candidates) :
                        Abs(candidates[i] - target) <= Abs(candidates[j] - target)
                  /\ \A j \in 1..(i - 1) :
                        Abs(candidates[j] - target) > Abs(candidates[i] - target)
    IN  candidates[best]

\* the left neighbour of the insertion point is not considered
_nearest_delta_NoLeft(sorted_ts, target) ==
    IF sorted_ts = <<>> THEN None
    ELSE
      LET lo == BinarySearch(sorted_ts, target, 0, Len(sorted_ts) - 1)
      IN  Some(sorted_ts[lo + 1] - target)

\* _nearest_delta(sorted_ts, target): None or Some(signed delta)
_nearest_delta(sorted_ts, target) ==
    IF sorted_ts = <<>> THEN None
    ELSE
      LET lo == BinarySearch(sorted_ts, target, 0, Len(sorted_ts) - 1)
          candidates ==
              (IF lo < Len(sorted_ts) THEN <<sorted_ts[lo + 1]>> ELSE <<>>)
              \o (IF lo > 0 THEN <<sorted_ts[lo]>> ELSE <<>>)
      IN  Some(MinByDistance(candidates, target) - target)

\* the windows half a second wider than the radius of the matching
FireTimeWindows_Wider(msgs, target_times, search_radius) ==
    {msgs[i].timestamp : i \in {i \in 1..Len(msgs) :
        \E k \in 1..Len(target_times) :
            Abs(msgs[i].timestamp - target_times[k]) <= search_radius + TicksPerSecond \div 2}}

\* the timestamps of the log within search_radius of some fire time
FireTimeWindows(msgs, target_times, search_radius) ==
    {msgs[i].timestamp : i \in {i \in 1..Len(msgs) :
        \E k \in 1..Len(target_times) :
            Abs(msgs[i].timestamp - target_times[k]) <= search_radius}}

\* max(can_ids, key=count): the first most frequent id in the iteration
\* order of the set, which id_order gives
MostFrequentCanId(msgs_sorted, id_order) ==
    LET count(cid) == Cardinality({i \in 1..Len(msgs_sorted) :
                                      msgs_sorted[i].can_id = cid})
        present == SelectSeq(id_order, LAMBDA cid : count(cid) > 0)
        best == CHOOSE i \in 1..Len(present) :
                  /\ \A j \in 1..Len(present) : count(present[j]) <= count(present[i])
                  /\ \A j \in 1..(i - 1) : count(present[j]) < count(present[i])
    IN  present[best]

\* a delta of exactly search_radius counted as unmatched
RECURSIVE Matches_Strict(_, _, _)
Matches_Strict(ts, target_times, search_radius) ==
    IF target_times = <<>> THEN <<>>
    ELSE LET ft == Head(target_times)
             nearest_delta == _nearest_delta(ts, ft)
             rest == Matches_Strict(ts, Tail(target_times), search_radius)
         IN  IF nearest_delta = None \/ Abs(nearest_delta[1]) >= search_radius
             THEN rest
             ELSE <<[delta |-> nearest_delta[1],
                     nearest_ts |-> ft + nearest_delta[1]]>> \o rest

\* the matched (fire time, delta) pairs of one signature, in fire-time order
RECURSIVE Matches(_, _, _)
Matches(ts, target_times, search_radius) ==
    IF target_times = <<>> THEN <<>>
    ELSE LET ft == Head(target_times)
             nearest_delta == _nearest_delta(ts, ft)
             rest == Matches(ts, Tail(target_times), search_radius)
         IN  IF nearest_delta = None \/ Abs(nearest_delta[1]) > search_radius
             THEN rest
             ELSE <<[delta |-> nearest_delta[1],
                     nearest_ts |-> ft + nearest_delta[1]]>> \o rest

\* the upper middle element taken for a list of even length
Median_Upper(xs) ==
    LET s == StableSort(xs, LAMBDA a, b : a < b)
    IN  <<2 * s[Len(s) \div 2 + 1], 2 * TicksPerSecond>>

\* statistics.median of a non-empty list of ticks, in seconds
Median(xs) ==
    LET s == StableSort(xs, LAMBDA a, b : a < b)
        n == Len(s)
    IN  IF n % 2 = 1 THEN <<2 * s[(n + 1) \div 2], 2 * TicksPerSecond>>
        ELSE <<s[n \div 2] + s[n \div 2 + 1], 2 * TicksPerSecond>>

\* statistics.mean of a non-empty list of ticks, in seconds
Mean(xs) == <<SumSeq(xs), Len(xs) * TicksPerSecond>>

\* max of a non-empty list of ticks, in seconds
Max(xs) == <<CHOOSE x \in {xs[i] : i \in 1..Len(xs)} :
                \A i \in 1..Len(xs) : xs[i] <= x, TicksPerSecond>>

\* the weights of coverage and tightness in the confidence, in tenths
CoverageWeight == 7
TightnessWeight == 3

\* fractions
\* a1 / a2 < b1 / b2 for a1, b1 >= 0 and a2, b2 > 0, compared by integer
\* parts and then by the inverted remainders
RECURSIVE FracLessFinite(_, _, _, _)
FracLessFinite(a1, a2, b1, b2) ==
    IF a1 \div a2 # b1 \div b2 THEN a1 \div a2 < b1 \div b2
    ELSE IF b1 % b2 = 0 THEN FALSE
    ELSE IF a1 % a2 = 0 THEN TRUE
    ELSE FracLessFinite(b2, b1 % b2, a2, a1 % a2)

\* a < b and a == b of two floats that are not negative
FracLess(a, b) ==
    IF a[2] = 0 THEN FALSE
    ELSE IF b[2] = 0 THEN b[1] > 0
    ELSE FracLessFinite(a[1], a[2], b[1], b[2])
FracEq(a, b) == ~FracLess(a, b) /\ ~FracLess(b, a)

\* tightness inverted: median_abs / (1 + median_abs)
Confidence_Inverted(coverage, median_abs) ==
    IF median_abs = Inf
    THEN <<CoverageWeight * coverage[1], 10 * coverage[2]>>
    ELSE <<CoverageWeight * coverage[1] * (median_abs[2] + median_abs[1])
             + TightnessWeight * median_abs[1] * coverage[2],
           10 * coverage[2] * (median_abs[2] + median_abs[1])>>

\* 0.7 * coverage + 0.3 * tightness, tightness = 1 / (1 + median_abs), or 0
\* when median_abs is infinite
Confidence(coverage, median_abs) ==
    IF median_abs = Inf
    THEN <<CoverageWeight * coverage[1], 10 * coverage[2]>>
    ELSE <<CoverageWeight * coverage[1] * (median_abs[2] + median_abs[1])
             + TightnessWeight * median_abs[2] * coverage[2],
           10 * coverage[2] * (median_abs[2] + median_abs[1])>>

\* the min_coverage test dropped
BelowMinCoverage_Never(coverage, min_coverage) == FALSE

\* coverage < min_coverage
BelowMinCoverage(coverage, min_coverage) == FracLess(coverage, min_coverage)

\* any() in place of all()
AllInWindow_Any(msgs_sorted, fire_time_windows) ==
    \E i \in 1..Len(msgs_sorted) : msgs_sorted[i].timestamp \in fire_time_windows

\* all(msg.timestamp in fire_time_windows for msg in msgs_sorted)
AllInWindow(msgs_sorted, fire_time_windows) ==
    \A i \in 1..Len(msgs_sorted) : msgs_sorted[i].timestamp \in fire_time_windows

\* the denominator counts the distinct fire times only
Coverage_DistinctDenominator(matched, target_times) ==
    IF target_times # <<>>
    THEN <<Len(matched), Cardinality({target_times[k] : k \in 1..Len(target_times)})>>
    ELSE <<0, 1>>

\* len(match_deltas) / len(target_times) if target_times else 0.0
Coverage(matched, target_times) ==
    IF target_times # <<>> THEN <<Len(matched), Len(target_times)>> ELSE <<0, 1>>

\* one iteration of the loop over _messages_by_pattern: <<>> when the
\* signature is skipped, <<candidate>> otherwise
Evaluate(entry, target_times, fire_time_windows, search_radius, min_coverage, id_order) ==
    LET msgs_sorted == StableSort(entry.msgs, LAMBDA a, b : a.timestamp < b.timestamp)
        can_id == MostFrequentCanId(msgs_sorted, id_order)
        all_in_window == AllInWindow(msgs_sorted, fire_time_windows)
        ts == [i \in 1..Len(msgs_sorted) |-> msgs_sorted[i].timestamp]
        matched == Matches(ts, target_times, search_radius)
        coverage == Coverage(matched, target_times)
        abs_deltas == [i \in 1..Len(matched) |-> Abs(matched[i].delta)]
        median_abs == IF abs_deltas # <<>> THEN Median(abs_deltas) ELSE Inf
        avg_abs == IF abs_deltas # <<>> THEN Mean(abs_deltas) ELSE Inf
        max_abs == IF abs_deltas # <<>> THEN Max(abs_deltas) ELSE Inf
        sample_timestamp == IF matched # <<>> THEN matched[1].nearest_ts
                            ELSE msgs_sorted[1].timestamp
        near == {i \in 1..Len(msgs_sorted) :
                    1000 * Abs(msgs_sorted[i].timestamp - sample_timestamp)
                        < TicksPerSecond}
        sample_line == IF near # {}
                       THEN msgs_sorted[CHOOSE i \in near : \A j \in near : i <= j].line_number
                       ELSE msgs_sorted[1].line_number
    IN  IF ~all_in_window THEN <<>>
        ELSE IF BelowMinCoverage(coverage, min_coverage) THEN <<>>
        ELSE <<[can_id |-> can_id,
                data_signature |-> entry.pattern,
                data_length |-> msgs_sorted[1].data_length,
                sample_timestamp |-> sample_timestamp,
                sample_line |-> sample_line,
                coverage |-> coverage,
                median_abs_delta |-> median_abs,
                avg_abs_delta |-> avg_abs,
                max_abs_delta |-> max_abs,
                confidence |-> Confidence(coverage, median_abs)]>>

\* the candidates of the groups from index p on, in discovery order
RECURSIVE Candidates(_, _, _, _, _, _, _)
Candidates(index, p, target_times, fire_time_windows, search_radius, min_coverage, id_order) ==
    IF p > Len(index) THEN <<>>
    ELSE Evaluate(index[p], target_times, fire_time_windows,
                  search_radius, min_coverage, id_order)
         \o Candidates(index, p + 1, target_times, fire_time_windows,
                       search_radius, min_coverage, id_order)

\* sorted(fire_times)
SortFireTimes(fire_times) == StableSort(fire_times, LAMBDA a, b : a < b)

\* reverse=True forgotten: ascending confidence
SortByConfidence_Ascending(candidates) ==
    StableSort(candidates, LAMBDA a, b : FracLess(a.confidence, b.confidence))

\* candidates.sort(key=lambda c: c.confidence, reverse=True)
SortByConfidence(candidates) ==
    StableSort(candidates, LAMBDA a, b : FracLess(b.confidence, a.confidence))

\* candidates[:max_candidates]
Truncate(candidates, max_candidates) == PySlice(candidates, 0, max_candidates)

\* find_command_candidates
find_command_candidates(msgs, index, fire_times, search_radius, min_coverage, max_candidates, id_order) ==
    IF fire_times = <<>> \/ msgs = <<>> THEN <<>>
    ELSE
      LET target_times == SortFireTimes(fire_times)
          fire_time_windows == FireTimeWindows(msgs, target_times, search_radius)
          candidates == Candidates(Items(msgs, index), 1, target_times, fire_time_windows,
                                   search_radius, min_coverage, id_order)
      IN  Truncate(SortByConfidence(candidates), max_candidates)

----------------------------------------------------------------------------
(* find_similar_patterns *)

\* reference_pattern.split(): the tokens of a string between runs of blanks;
\* a string is the sequence of its tokens and blanks
Split(text) == SelectSeq(text, LAMBDA tok : tok # " ")

\* sum(1 for a, b in zip(ref_bytes, msg_bytes) if a != b)
Differences(ref_bytes, msg_bytes) ==
    LET n == IF Len(ref_bytes) < Len(msg_bytes) THEN Len(ref_bytes) ELSE Len(msg_bytes)
    IN  Cardinality({i \in 1..n : ref_bytes[i] # msg_bytes[i]})

\* 0 <= differences: the reference itself is similar
SimilarEnough_WithZero(differences, max_differences) ==
    0 <= differences /\ differences <= max_differences

\* 0 < differences <= max_differences
SimilarEnough(differences, max_differences) ==
    0 < differences /\ differences <= max_differences

\* the membership test dropped
AlreadyListed_Never(pattern, similar_patterns) == FALSE

\* pattern in [p[0] for p in similar_patterns]
AlreadyListed(pattern, similar_patterns) ==
    \E k \in 1..Len(similar_patterns) : similar_patterns[k][1] = pattern

\* the loop of find_similar_patterns over the messages from the i-th on
RECURSIVE SimilarLoop(_, _, _, _, _)
SimilarLoop(msgs, i, ref_bytes, max_differences, similar_patterns) ==
    IF i > Len(msgs) THEN similar_patterns
    ELSE
      LET msg_bytes == msgs[i].data_bytes
          differences == Differences(ref_bytes, msg_bytes)
          pattern == data_signature(msgs[i])
      IN  IF Len(msg_bytes) # Len(ref_bytes)
          THEN SimilarLoop(msgs, i + 1, ref_bytes, max_differences, similar_patterns)
          ELSE IF SimilarEnough(differences, max_differences)
                  /\ ~AlreadyListed(pattern, similar_patterns)
          THEN SimilarLoop(msgs, i + 1, ref_bytes, max_differences,
                           Append(similar_patterns, <<pattern, differences>>))
          ELSE SimilarLoop(msgs, i + 1, ref_bytes, max_differences, similar_patterns)

\* find_similar_patterns: the (pattern, differences) pairs
find_similar_patterns(msgs, reference_pattern, max_differences) ==
    LET ref_bytes == Split(reference_pattern)
        similar_patterns == SimilarLoop(msgs, 1, ref_bytes, max_differences, <<>>)
    IN  StableSort(similar_patterns, LAMBDA a, b : a[2] < b[2])

----------------------------------------------------------------------------
(* filter_by_unique_data_after and the pattern statistics *)

\* the loop of _get_first_occurrence_times: the dict as the sequence of its
\* items [pattern, first_time], in insertion order
RECURSIVE FirstOccurrenceLoop(_, _, _)
FirstOccurrenceLoop(msgs, i, first_occurrence) ==
    IF i > Len(msgs) THEN first_occurrence
    ELSE
      LET pattern == data_signature(msgs[i])
      IN  IF \E k \in 1..Len(first_occurrence) : first_occurrence[k].pattern = pattern
          THEN FirstOccurrenceLoop(msgs, i + 1, first_occurrence)
          ELSE FirstOccurrenceLoop(msgs, i + 1,
                   Append(first_occurrence,
                          [pattern |-> pattern, first_time |-> msgs[i].timestamp]))

_get_first_occurrence_times(msgs) == FirstOccurrenceLoop(msgs, 1, <<>>)

\* first_time > min_timestamp
AtOrAfter_Strict(first_time, min_timestamp) == first_time > min_timestamp

\* first_time >= min_timestamp
AtOrAfter(first_time, min_timestamp) == first_time >= min_timestamp

\* filter_by_unique_data_after: the locals first_occurrence and
\* filtered_messages when it returns
filter_by_unique_data_after(msgs, min_timestamp) ==
    IF msgs = <<>> THEN [first_occurrence |-> <<>>, filtered_messages |-> <<>>]
    ELSE
      LET first_occurrence == _get_first_occurrence_times(msgs)
          valid_patterns ==
              {first_occurrence[k].pattern : k \in {k \in 1..Len(first_occurrence) :
                  AtOrAfter(first_occurrence[k].first_time, min_timestamp)}}
      IN  [first_occurrence |-> first_occurrence,
           filtered_messages |->
               SelectSeq(msgs, LAMBDA msg : data_signature(msg) \in valid_patterns)]

\* min(a, b), max(a, b)
Min2(a, b) == IF b < a THEN b ELSE a
Max2(a, b) == IF b > a THEN b ELSE a

\* the loop of _collect_pattern_statistics: the dict as the sequence of its
\* items, in insertion order
RECURSIVE StatisticsLoop(_, _, _)
StatisticsLoop(msgs, i, pattern_stats) ==
    IF i > Len(msgs) THEN pattern_stats
    ELSE
      LET msg == msgs[i]
          pattern == data_signature(msg)
          known == \E k \in 1..Len(pattern_stats) : pattern_stats[k].pattern = pattern
          entered == IF known THEN pattern_stats
                     ELSE Append(pattern_stats,
                                 [pattern |-> pattern,
                                  count |-> 0,
                                  first_time |-> msg.timestamp,
                                  last_time |-> msg.timestamp,
                                  can_ids |-> {},
                                  first_msg |-> msg])
          k == CHOOSE k \in 1..Len(entered) : entered[k].pattern = pattern
      IN  StatisticsLoop(msgs, i + 1,
              [entered EXCEPT ![k] =
                  [@ EXCEPT !.count = @ + 1,
                            !.first_time = Min2(@, msg.timestamp),
                            !.last_time = Max2(@, msg.timestamp),
                            !.can_ids = @ \cup {msg.can_id}]])

_collect_pattern_statistics(msgs) == StatisticsLoop(msgs, 1, <<>>)

----------------------------------------------------------------------------
(* Inputs *)

\* all sequences over S of length 0..n
SeqsUpTo(S, n) == UNION {[1..k -> S] : k \in 0..n}

\* a well-formed row of the log, after split()
Row(can_id, data_bytes, ts_token) ==
    <<"0", can_id, "N", "2">> \o data_bytes \o <<ts_token, "R">>

\* the rows of the analysed logs: AA BB at 10 s and 12 s, FF 00 at 11.5 s
\* and 20 s
RowPool ==
    { Row("100", <<"AA", "BB">>, "10.000000"),
      Row("100", <<"AA", "BB">>, "12.000000"),
      Row("200", <<"FF", "00">>, "11.500000"),
      Row("200", <<"FF", "00">>, "20.000000") }

\* fire times (ticks): 10 s and 12 s
FireTimes == {10 * TicksPerSecond, 12 * TicksPerSecond}
\* search_radius (ticks): 0 s and 0.5 s
Radii == {0, TicksPerSecond \div 2}
MinCoverages == {<<0, 1>>, <<1, 2>>, <<1, 1>>}
MaxCandidates == {1, 2}
\* the fire_times lists, in any order and with repetitions
FireLists == SeqsUpTo(FireTimes, MaxFire)
\* the orders in which a set of can_id strings may be iterated
IdOrders == {<<"100", "200">>, <<"200", "100">>}

----------------------------------------------------------------------------
(* The analyzer: constructed over the records of a parsed log, then queried
   once; the parser that produced the records is not part of this view *)

Init ==
    \E lines \in SeqsUpTo(RowPool, MaxLines) :
        /\ parser_messages = <<>>
        /\ messages = parse_file("CANLogParser", [exists |-> TRUE, lines |-> lines]).messages
        /\ by_pattern = IndexByPattern(messages)
        /\ call = [op |-> "__init__", returned |-> TRUE]
        /\ result = <<>>

FindCommandCandidates ==
    /\ call.op = "__init__"
    /\ \E fire_times \in FireLists, search_radius \in Radii,
          min_coverage \in MinCoverages, max_candidates \in MaxCandidates,
          id_order \in IdOrders :
          /\ call' = [op |-> "find_command_candidates",
                      returned |-> TRUE,
                      fire_times |-> fire_times,
                      search_radius |-> search_radius,
                      min_coverage |-> min_coverage,
                      max_candidates |-> max_candidates]
          /\ result' = find_command_candidates(messages, by_pattern, fire_times,
                          search_radius, min_coverage, max_candidates, id_order)
    /\ UNCHANGED <<parser_messages, messages, by_pattern>>

Next == FindCommandCandidates

Spec == Init /\ [][Next]_vars

----------------------------------------------------------------------------
(* The analyzer, asked for similar patterns, for the records of the patterns
   first seen after a time, or for the pattern statistics *)

\* rows of one and of two payload bytes, in any order of their timestamps
QueryRowPool ==
    { Row("100", <<"AA", "BB">>, "12.000000"),
      Row("200", <<"AA", "BB">>, "10.000000"),
      Row("100", <<"AA", "BC">>, "11.500000"),
      Row("200", <<"FF", "00">>, "20.000000"),
      Row("100", <<"FF", "00">>, "10.500000"),
      <<"0", "100", "N", "1", "AA", "10.000000", "R">> }

\* reference_pattern strings: tokens and blanks
References ==
    { <<"AA", " ", "BB">>, <<"AA", " ", " ", "BC">>, <<"AA", " ", "00">>,
      <<"BB">>, <<>> }
MaxDifferences == {0, 1, 2}
\* min_timestamp (ticks): 10 s, 11 s, 12 s
Thresholds == {10 * TicksPerSecond, 11 * TicksPerSecond, 12 * TicksPerSecond}

InitQueries ==
    \E lines \in SeqsUpTo(QueryRowPool, MaxLines) :
        /\ parser_messages = <<>>
        /\ messages = parse_file("CANLogParser", [exists |-> TRUE, lines |-> lines]).messages
        /\ by_pattern = IndexByPattern(messages)
        /\ call = [op |-> "__init__", returned |-> TRUE]
        /\ result = <<>>

FindSimilarPatterns ==
    /\ call.op = "__init__"
    /\ \E reference_pattern \in References, max_differences \in MaxDifferences :
          /\ call' = [op |-> "find_similar_patterns", returned |-> TRUE,
                      reference_pattern |-> reference_pattern,
                      max_differences |-> max_differences]
          /\ result' = find_similar_patterns(messages, reference_pattern, max_differences)
    /\ UNCHANGED <<parser_messages, messages, by_pattern>>

FilterByUniqueDataAfter ==
    /\ call.op = "__init__"
    /\ \E min_timestamp \in Thresholds :
          /\ call' = [op |-> "filter_by_unique_data_after", returned |-> TRUE,
                      min_timestamp |-> min_timestamp]
          /\ result' = filter_by_unique_data_after(messages, min_timestamp)
    /\ UNCHANGED <<parser_messages, messages, by_pattern>>

CollectPatternStatistics ==
    /\ call.op = "__init__"
    /\ call' = [op |-> "_collect_pattern_statistics", returned |-> TRUE]
    /\ result' = _collect_pattern_statistics(messages)
    /\ UNCHANGED <<parser_messages, messages, by_pattern>>

NextQueries ==
    \/ FindSimilarPatterns
    \/ FilterByUniqueDataAfter
    \/ CollectPatternStatistics

SpecQueries == InitQueries /\ [][NextQueries]_vars

----------------------------------------------------------------------------
(* The analyzer over records lying at, before and after the fire times,
   queried with radii up to 1.5 s *)

\* AA BB at 10 s, 10.5 s and 11.5 s, FF 00 at 12 s
StatRowPool ==
    { Row("100", <<"AA", "BB">>, "10.000000"),
      Row("100", <<"AA", "BB">>, "10.500000"),
      Row("100", <<"AA", "BB">>, "11.500000"),
      Row("200", <<"FF", "00">>, "12.000000") }

\* search_radius (ticks): 0 s, 0.5 s and 1.5 s
WideRadii == {0, TicksPerSecond \div 2, (3 * TicksPerSecond) \div 2}

InitStats ==
    \E lines \in SeqsUpTo(StatRowPool, MaxLines) :
        /\ parser_messages = <<>>
        /\ messages = parse_file("CANLogParser", [exists |-> TRUE, lines |-> lines]).messages
        /\ by_pattern = IndexByPattern(messages)
        /\ call = [op |-> "__init__", returned |-> TRUE]
        /\ result = <<>>

FindCommandCandidatesNear ==
    /\ call.op = "__init__"
    /\ \E fire_times \in FireLists, search_radius \in WideRadii,
          min_coverage \in MinCoverages :
          /\ call' = [op |-> "find_command_candidates",
                      returned |-> TRUE,
                      fire_times |-> fire_times,
                      search_radius |-> search_radius,
                      min_coverage |-> min_coverage,
                      max_candidates |-> 2]
          /\ result' = find_command_candidates(messages, by_pattern, fire_times,
                          search_radius, min_coverage, 2, <<"100", "200">>)
    /\ UNCHANGED <<parser_messages, messages, by_pattern>>

NextStats == FindCommandCandidatesNear

SpecStats == InitStats /\ [][NextStats]_vars

----------------------------------------------------------------------------
(* The analyzer over records half a millisecond apart *)

\* AA BB at 10 s and at 10.0005 s, FF 00 at 12 s
SampleRowPool ==
    { Row("100", <<"AA", "BB">>, "10.000000"),
      Row("100", <<"AA", "BB">>, "10.000500"),
      Row("200", <<"FF", "00">>, "12.000000") }

\* fire times (ticks): 10 s, 10.0005 s and 12 s
SampleFireTimes ==
    {10 * TicksPerSecond, 10 * TicksPerSecond + TicksPerSecond \div 2000,
     12 * TicksPerSecond}
\* search_radius (ticks): 0 s, 0.0005 s and 0.5 s
SampleRadii == {0, TicksPerSecond \div 2000, TicksPerSecond \div 2}

InitSample ==
    \E lines \in SeqsUpTo(SampleRowPool, MaxLines) :
        /\ parser_messages = <<>>
        /\ messages = parse_file("CANLogParser", [exists |-> TRUE, lines |-> lines]).messages
        /\ by_pattern = IndexByPattern(messages)
        /\ call = [op |-> "__init__", returned |-> TRUE]
        /\ result = <<>>

FindCommandCandidatesSample ==
    /\ call.op = "__init__"
    /\ \E fire_times \in SeqsUpTo(SampleFireTimes, MaxFire), search_radius \in SampleRadii :
          /\ call' = [op |-> "find_command_candidates",
                      returned |-> TRUE,
                      fire_times |-> fire_times,
                      search_radius |-> search_radius,
                      min_coverage |-> <<0, 1>>,
                      max_candidates |-> 2]
          /\ result' = find_command_candidates(messages, by_pattern, fire_times,
                          search_radius, <<0, 1>>, 2, <<"100", "200">>)
    /\ UNCHANGED <<parser_messages, messages, by_pattern>>

NextSample == FindCommandCandidatesSample

SpecSample == InitSample /\ [][NextSample]_vars

----------------------------------------------------------------------------
(* One analyzer asked again and again *)

\* msgs.sort(key=...) in the place of sorted(msgs, key=...): every group of
\* the index is put in timestamp order
IndexAfterSorted_InPlace(msgs, index) ==
    [p \in 1..Len(index) |->
        [pattern |-> index[p].pattern,
         refs |-> StableSort(index[p].refs,
                     LAMBDA a, b : msgs[a].timestamp < msgs[b].timestamp)]]

\* msgs_sorted = sorted(msgs, key=...) builds a new list: the groups of
\* _messages_by_pattern after the loop of find_command_candidates
IndexAfterSorted(msgs, index) == index

\* AA BB at 12 s and at 10 s under two identifiers, FF 00 at 20 s
RepeatRowPool ==
    { Row("100", <<"AA", "BB">>, "12.000000"),
      Row("200", <<"AA", "BB">>, "10.000000"),
      Row("200", <<"FF", "00">>, "20.000000") }

\* the arguments of the find_command_candidates calls: fire_times,
\* search_radius, min_coverage, max_candidates
RepeatArguments ==
    { <<<<12 * TicksPerSecond, 10 * TicksPerSecond>>, TicksPerSecond \div 2, <<0, 1>>, 2>>,
      <<<<10 * TicksPerSecond>>, 0, <<1, 2>>, 1>> }

\* the query just answered, added to the queries answered so far
Answered(op, args, answer) ==
    [op |-> op, returned |-> TRUE, args |-> args,
     id_order |-> call.id_order, given |-> call.given,
     history |-> Append(call.history, [op |-> op, args |-> args, result |-> answer])]

\* CANDataPatternAnalyzer(messages); call.given is the list handed to the
\* constructor, call.id_order the iteration order of a set of identifiers
\* in this process, call.history the queries answered so far
InitRepeat ==
    \E lines \in SeqsUpTo(RepeatRowPool, MaxLines), id_order \in IdOrders :
        LET given == parse_file("CANLogParser", [exists |-> TRUE, lines |-> lines]).messages
        IN  /\ parser_messages = <<>>
            /\ messages = given
            /\ by_pattern = IndexByPattern(given)
            /\ call = [op |-> "__init__", returned |-> TRUE, args |-> <<>>,
                       id_order |-> id_order, given |-> given, history |-> <<>>]
            /\ result = <<>>

FindCommandCandidatesAgain ==
    /\ Len(call.history) < MaxQueries
    /\ \E args \in RepeatArguments :
          LET answer == find_command_candidates(messages, by_pattern, args[1],
                            args[2], args[3], args[4], call.id_order)
          IN  /\ result' = answer
              /\ call' = Answered("find_command_candidates", args, answer)
    /\ by_pattern' = IndexAfterSorted(messages, by_pattern)
    /\ UNCHANGED <<parser_messages, messages>>

FindSimilarPatternsAgain ==
    /\ Len(call.history) < MaxQueries
    /\ LET args == << <<"AA", " ", "BC">>, 2 >>
           answer == find_similar_patterns(messages, args[1], args[2])
       IN  /\ result' = answer
           /\ call' = Answered("find_similar_patterns", args, answer)
    /\ UNCHANGED <<parser_messages, messages, by_pattern>>

FilterByUniqueDataAfterAgain ==
    /\ Len(call.history) < MaxQueries
    /\ LET args == <<11 * TicksPerSecond>>
           answer == filter_by_unique_data_after(messages, args[1]).filtered_messages
       IN  /\ result' = answer
           /\ call' = Answered("filter_by_unique_data_after", args, answer)
    /\ UNCHANGED <<parser_messages, messages, by_pattern>>

CollectPatternStatisticsAgain ==
    /\ Len(call.history) < MaxQueries
    /\ LET answer == _collect_pattern_statistics(messages)
       IN  /\ result' = answer
           /\ call' = Answered("_collect_pattern_statistics", <<>>, answer)
    /\ UNCHANGED <<parser_messages, messages, by_pattern>>

NextRepeat ==
    \/ FindCommandCandidatesAgain
    \/ FindSimilarPatternsAgain
    \/ FilterByUniqueDataAfterAgain
    \/ CollectPatternStatisticsAgain

SpecRepeat == InitRepeat /\ [][NextRepeat]_vars

----------------------------------------------------------------------------
(* The line parsers alone: one line parsed by either parser *)

LineTokens == {"0", "1", "-5", "AA", "10.500000"}

\* lines outside the token alphabet: the example row without its direction,
\* an error frame, a length far below zero
ExtraLines ==
    { <<"0", "100", "N", "2", "AA", "BB", "10.000000">>,
      <<"0", "100", "ErrorFrame", "10.000000", "R">>,
      <<"0", "100", "N", "-12", "AA", "BB", "10.000000">> }

LineInputs == SeqsUpTo(LineTokens, MaxTokens) \cup ExtraLines

InitLine ==
    \E parts \in LineInputs :
        /\ parser_messages = <<>>
        /\ messages = <<>>
        /\ by_pattern = <<>>
        /\ call = [op |-> "parse_line", returned |-> FALSE, which |-> "",
                   parts |-> parts, line_num |-> 1]
        /\ result = <<>>

ParseLine ==
    /\ call.op = "parse_line"
    /\ ~call.returned
    /\ \E which \in {"CANLogParser", "CANDataParser"} :
          /\ call' = [call EXCEPT !.returned = TRUE, !.which = which]
          /\ result' = LineParser(which, call.parts, call.line_num)
    /\ UNCHANGED <<parser_messages, messages, by_pattern>>

NextLine == ParseLine

SpecLine == InitLine /\ [][NextLine]_vars

----------------------------------------------------------------------------
(* The parsers: one log file parsed by a fresh parser *)

LinePool ==
    { Row("100", <<"AA", "BB">>, "10.000000"),
      Row("200", <<"FF", "00">>, "20.000000"),
      <<"0", "100", "N", "2", "AA", "BB", "10.000000">>,
      <<"0", "100", "N">>,
      <<"x", "100", "N", "2", "AA", "BB", "10.000000", "R">>,
      <<"0", "100", "N", "x", "AA", "BB", "10.000000", "R">>,
      <<"0", "100", "N", "2", "AA", "BB", "zz", "R">>,
      <<"0", "100", "N", "-5", "AA", "BB", "10.000000", "R">>,
      <<"0", "100", "N", "-12", "AA", "BB", "10.000000">>,
      <<"0", "100", "ErrorFrame", "10.000000", "R">>,
      <<"ErrorFrame">>,
      <<"0", "xErrorFrame", "N", "2", "AA", "BB", "10.000000", "R">>,
      <<>> }

Files ==
    {[exists |-> FALSE]}
    \cup {[exists |-> TRUE, lines |-> ls] : ls \in SeqsUpTo(LinePool, MaxLines)}

InitParse ==
    \E file \in Files, which \in {"CANLogParser", "CANDataParser"} :
        /\ parser_messages = <<>>
        /\ messages = <<>>
        /\ by_pattern = <<>>
        /\ call = [op |-> "parse_file", returned |-> FALSE, which |-> which,
                   file |-> file]
        /\ result = <<>>

ParseFile ==
    /\ call.op = "parse_file"
    /\ ~call.returned
    /\ LET r == parse_file(call.which, call.file)
       IN  /\ parser_messages' = r.messages
           /\ result' = [error_frames |-> r.error_frames,
                         reports |-> r.reports,
                         printed |-> r.printed]
    /\ call' = [call EXCEPT !.returned = TRUE]
    /\ UNCHANGED <<messages, by_pattern>>

NextParse == ParseFile

SpecParse == InitParse /\ [][NextParse]_vars

----------------------------------------------------------------------------
(* One parser, parse_file called on it again and again *)

\* the reset forgotten: the loop appends to the list of the earlier call
ResetMessages_Kept(self_messages) == self_messages

\* self.messages = [], the first statement of parse_file
ResetMessages(self_messages) == <<>>

\* self.messages.clear() in the place of self.messages = []: the list the
\* analyzer was given is emptied with it
AliasAfterReset_Cleared(alias_messages) == <<>>

\* self.messages = [] binds a new list; the list of the earlier call, which
\* an analyzer created from it still refers to, keeps its records
AliasAfterReset(alias_messages) == alias_messages

\* a missing file, an empty file, and files of good and bad lines
SessionFiles ==
    { [exists |-> FALSE],
      [exists |-> TRUE, lines |-> <<>>],
      [exists |-> TRUE, lines |-> <<Row("100", <<"AA", "BB">>, "10.000000")>>],
      [exists |-> TRUE, lines |-> <<Row("200", <<"FF", "00">>, "20.000000"),
                                    Row("100", <<"AA", "BB">>, "10.000000")>>],
      [exists |-> TRUE, lines |-> <<<<"0", "100", "N">>,
                                    <<"0", "100", "ErrorFrame", "10.000000", "R">>,
                                    Row("200", <<"FF", "00">>, "20.000000")>>] }

\* CANLogParser() / CANDataParser(); call.history lists the parse_file calls
\* made so far, each with the file and the records the parser held after it;
\* call.created_after is None, or Some(the number of parse_file calls made
\* before create_analyzer)
InitSession ==
    \E which \in {"CANLogParser", "CANDataParser"} :
        /\ parser_messages = <<>>
        /\ messages = <<>>
        /\ by_pattern = <<>>
        /\ call = [op |-> "__init__", returned |-> TRUE, which |-> which,
                   history |-> <<>>, created_after |-> None]
        /\ result = <<>>

ParseFileAgain ==
    /\ call.op \in {"__init__", "parse_file", "create_analyzer"}
    /\ call.returned
    /\ Len(call.history) < MaxCalls
    /\ \E file \in SessionFiles :
          LET r == parse_file(call.which, file)
              self_messages == ResetMessages(parser_messages) \o r.messages
          IN  /\ parser_messages' = self_messages
              /\ call' = [op |-> "parse_file", returned |-> TRUE,
                          which |-> call.which,
                          history |-> Append(call.history,
                                        [file |-> file, messages |-> self_messages]),
                          created_after |-> call.created_after]
              /\ result' = [error_frames |-> r.error_frames,
                            reports |-> r.reports,
                            printed |-> r.printed]
    /\ messages' = IF call.created_after # None THEN AliasAfterReset(messages)
                   ELSE messages
    /\ UNCHANGED by_pattern

\* CANLogParser.create_analyzer: CANDataPatternAnalyzer(self.messages), an
\* analyzer over the list the parser holds
CreateAnalyzer ==
    /\ call.which = "CANLogParser"
    /\ call.returned
    /\ call.created_after = None
    /\ messages' = parser_messages
    /\ by_pattern' = IndexByPattern(parser_messages)
    /\ call' = [call EXCEPT !.op = "create_analyzer",
                            !.created_after = Some(Len(call.history))]
    /\ result' = <<>>
    /\ UNCHANGED parser_messages

NextSession ==
    \/ ParseFileAgain
    \/ CreateAnalyzer

SpecSession == InitSession /\ [][NextSession]_vars

----------------------------------------------------------------------------
(* _nearest_delta alone *)

\* the ascending lists over 0..MaxTs of length 0..MaxLen
AscendingLists ==
    {ts \in SeqsUpTo(0..MaxTs, MaxLen) :
        \A i \in 1..(Len(ts) - 1) : ts[i] <= ts[i + 1]}

InitNearest ==
    \E sorted_ts \in AscendingLists, target \in (-1)..(MaxTs + 1) :
        /\ parser_messages = <<>>
        /\ messages = <<>>
        /\ by_pattern = <<>>
        /\ call = [op |-> "_nearest_delta", returned |-> FALSE,
                   sorted_ts |-> sorted_ts, target |-> target]
        /\ result = <<>>

NearestDelta ==
    /\ call.op = "_nearest_delta"
    /\ ~call.returned
    /\ call' = [call EXCEPT !.returned = TRUE]
    /\ result' = _nearest_delta(call.sorted_ts, call.target)
    /\ UNCHANGED <<parser_messages, messages, by_pattern>>

NextNearest == NearestDelta

SpecNearest == InitNearest /\ [][NextNearest]_vars

----------------------------------------------------------------------------
(* C1 *)

LineReturned == call.op = "parse_line" /\ call.returned

\* C1: a record produced by either line parser has as many data bytes as
\* its data_length, which is not negative; a line declaring a negative
\* length yields no record.
C1_PayloadLength ==
    LineReturned =>
        /\ result.kind = "record" =>
              /\ Len(result.msg.data_bytes) = result.msg.data_length
              /\ result.msg.data_length >= 0
        /\ ( /\ Len(call.parts) >= 4
             /\ IntOf(call.parts[4]) # None
             /\ IntOf(call.parts[4])[1] < 0 )
           => result.kind # "record"

\* a negative declared length that passes every test before the mismatch
\* test: the slice parts[4:-1] holds a token, parts[-1] is a timestamp
C1_Witness ==
    /\ LineReturned
    /\ Len(call.parts) = 6
    /\ IntOf(call.parts[1]) # None
    /\ call.parts[4] = "-5"
    /\ FloatOf(call.parts[6]) # None
    /\ result = Rejected("warning")

----------------------------------------------------------------------------
(* C9 *)

\* channel, id, flag, length n >= 0, n payload tokens, timestamp, and
\* nothing after it
WellFormedWithoutDirection(parts) ==
    /\ Len(parts) >= 5
    /\ ~LineHasErrorFrame(parts)
    /\ IntOf(parts[1]) # None
    /\ IntOf(parts[4]) # None
    /\ IntOf(parts[4])[1] >= 0
    /\ Len(parts) = 4 + IntOf(parts[4])[1] + 1
    /\ FloatOf(parts[Len(parts)]) # None

\* C9: a well-formed line without a direction token is parsed into a
\* record whose direction is the empty string.
C9_DirectionOptional ==
    (LineReturned /\ WellFormedWithoutDirection(call.parts))
        => (result.kind = "record" /\ result.msg.direction = "")

----------------------------------------------------------------------------
(* C10 *)

FileReturned == call.op = "parse_file" /\ call.returned /\ call.file.exists

\* a line the description calls malformed: fewer than 6 tokens, fewer than
\* 4 + payload_length + 2 tokens, or a channel, payload_length or timestamp
\* that is not a number
Malformed(parts) ==
    /\ parts # <<>>
    /\ ~LineHasErrorFrame(parts)
    /\ \/ Len(parts) < 6
       \/ IntOf(parts[1]) = None
       \/ IntOf(parts[4]) = None
       \/ Len(parts) < 4 + IntOf(parts[4])[1] + 2
       \/ /\ IntOf(parts[4])[1] >= 0
          /\ FloatOf(parts[4 + IntOf(parts[4])[1] + 1]) = None

\* a data row: numeric channel, length n >= 0, n payload tokens, a numeric
\* timestamp and a direction
WellFormed(parts) ==
    /\ Len(parts) >= 6
    /\ ~LineHasErrorFrame(parts)
    /\ IntOf(parts[1]) # None
    /\ IntOf(parts[4]) # None
    /\ IntOf(parts[4])[1] >= 0
    /\ Len(parts) >= 4 + IntOf(parts[4])[1] + 2
    /\ FloatOf(parts[4 + IntOf(parts[4])[1] + 1]) # None

RecordLines == {parser_messages[i].line_number : i \in 1..Len(parser_messages)}

\* C10: a malformed line produces no record, no exception leaves the line
\* parser (the loop of parse_file runs to the end of the file), and every
\* well-formed line, also one after a bad line, becomes a record.
C10_BadLineIsLocal ==
    FileReturned =>
        /\ result.printed = "successfully parsed"
        /\ \A k \in 1..Len(call.file.lines) :
              /\ Malformed(call.file.lines[k]) => k \notin RecordLines
              /\ WellFormed(call.file.lines[k]) => k \in RecordLines

\* a line on which the line parser catches an IndexError, then a good row
C10_Witness ==
    /\ FileReturned
    /\ Len(call.file.lines) >= 2
    /\ call.file.lines[1] = <<"0", "100", "N", "-12", "AA", "BB", "10.000000">>
    /\ result.reports = <<<<1, "error">>>>
    /\ WellFormed(call.file.lines[2])
    /\ RecordLines = {2}

----------------------------------------------------------------------------
(* C11 *)

\* C11: for a log without error-frame lines in which every line is a
\* well-formed row, parse_file keeps one record per line, in line order, the
\* record of the k-th line carrying line_number k, and rejects nothing.
C11_OneRecordPerLine ==
    (FileReturned /\ \A k \in 1..Len(call.file.lines) : WellFormed(call.file.lines[k]))
        => /\ Len(parser_messages) = Len(call.file.lines)
           /\ \A k \in 1..Len(call.file.lines) :
                 /\ parser_messages[k].raw_line = call.file.lines[k]
                 /\ parser_messages[k].line_number = k
           /\ result.reports = <<>>
           /\ result.error_frames = 0
           /\ result.printed = "successfully parsed"

\* a log of at least two different well-formed rows
C11_Witness ==
    /\ FileReturned
    /\ Len(call.file.lines) >= 2
    /\ \A k \in 1..Len(call.file.lines) : WellFormed(call.file.lines[k])
    /\ call.file.lines[1] # call.file.lines[2]
    /\ Len(parser_messages) = Len(call.file.lines)

----------------------------------------------------------------------------
(* C12 *)

\* a line with the marker somewhere in it
ContainsMarker(parts) ==
    \E i \in 1..Len(parts) : parts[i] \in {"ErrorFrame", "xErrorFrame"}

MarkerLines == {k \in 1..Len(call.file.lines) : ContainsMarker(call.file.lines[k])}

\* C12: the error-frame count of parse_file is the number of lines holding
\* the marker; no such line becomes a record or is reported, whatever its
\* other tokens and however many tokens it has.
C12_ErrorFramesCounted ==
    FileReturned =>
        /\ result.error_frames = Cardinality(MarkerLines)
        /\ \A k \in MarkerLines : k \notin RecordLines
        /\ \A r \in 1..Len(result.reports) : result.reports[r][1] \notin MarkerLines

\* a one-token marker line, a row that is well-formed but for the marker
\* inside its identifier, and a row that becomes a record
C12_Witness ==
    /\ FileReturned
    /\ Len(call.file.lines) = 3
    /\ \E a \in 1..3, b \in 1..3, c \in 1..3 :
          /\ call.file.lines[a] = <<"ErrorFrame">>
          /\ call.file.lines[b] = <<"0", "xErrorFrame", "N", "2", "AA", "BB", "10.000000", "R">>
          /\ WellFormed(call.file.lines[c])
          /\ RecordLines = {c}
    /\ result.error_frames = 2
    /\ result.reports = <<>>

----------------------------------------------------------------------------
(* C13 *)

\* what parse_file leaves to its caller: it returns None, and the parser
\* holds the records
Outcome(returned, self_messages) == [returned |-> returned, messages |-> self_messages]

\* C13: the outcome of parse_file on a file that cannot be opened differs
\* from the outcome of a successful parse of a file without records.
C13_MissingFileDistinct ==
    (call.op = "parse_file" /\ call.returned /\ ~call.file.exists)
        => Outcome(None, parser_messages)
           # Outcome(None, parse_file(call.which, [exists |-> TRUE, lines |-> <<>>]).messages)

----------------------------------------------------------------------------
(* C14 *)

InSession == call.op = "parse_file" /\ call.returned /\ "history" \in DOMAIN call

\* C14: two parse_file calls on the same log leave the same list of records,
\* field for field and in the same order, whether the parser had parsed
\* another log before or not; the list is the one a fresh parser builds.
C14_Deterministic ==
    InSession =>
        /\ \A i \in 1..Len(call.history), j \in 1..Len(call.history) :
              call.history[i].file = call.history[j].file
                  => call.history[i].messages = call.history[j].messages
        /\ \A i \in 1..Len(call.history) :
              call.history[i].messages
                  = parse_file(call.which, call.history[i].file).messages
        /\ parser_messages = call.history[Len(call.history)].messages

\* a log with records parsed, another log parsed, the first parsed again
C14_Witness ==
    /\ InSession
    /\ Len(call.history) = 3
    /\ call.history[1].file = call.history[3].file
    /\ call.history[1].file # call.history[2].file
    /\ Len(call.history[1].messages) = 2
    /\ call.history[2].messages # <<>>
    /\ parser_messages = call.history[1].messages

----------------------------------------------------------------------------
(* C15 *)

SimilarReturned == call.op = "find_similar_patterns" /\ call.returned

\* the number of positions at which two token lists of one length differ
HammingDistance(a, b) == Cardinality({i \in 1..Len(a) : a[i] # b[i]})

\* C15: every returned pair (signature, d) has a signature of as many tokens
\* as the reference, d is the number of positions at which the two differ,
\* and 1 <= d <= max_differences; the reference itself is never returned,
\* and nothing is returned for max_differences = 0.
C15_SimilarWithinDistance ==
    SimilarReturned =>
        LET ref == Split(call.reference_pattern)
        IN  /\ \A k \in 1..Len(result) :
                  LET sig == Split(result[k][1])
                      d == result[k][2]
                  IN  /\ Len(sig) = Len(ref)
                      /\ d = HammingDistance(ref, sig)
                      /\ 1 <= d
                      /\ d <= call.max_differences
                      /\ sig # ref
            /\ call.max_differences = 0 => result = <<>>

\* the records hold the reference itself, a signature one token away and a
\* signature of another length; only the second is returned
C15_Witness ==
    /\ SimilarReturned
    /\ call.max_differences = 1
    /\ \E i \in 1..Len(messages) : messages[i].data_bytes = Split(call.reference_pattern)
    /\ \E i \in 1..Len(messages) :
          Len(messages[i].data_bytes) # Len(Split(call.reference_pattern))
    /\ Len(result) = 1
    /\ result[1][2] = 1

----------------------------------------------------------------------------
(* C16 *)

\* C16: the returned list is ascending by distance, holds no signature
\* twice, and holds every signature of the records that has as many tokens
\* as the reference and differs from it at 1..max_differences positions.
C16_SortedDistinctComplete ==
    SimilarReturned =>
        LET ref == Split(call.reference_pattern)
        IN  /\ \A i \in 1..Len(result), j \in 1..Len(result) :
                  i < j => /\ result[i][2] <= result[j][2]
                           /\ result[i][1] # result[j][1]
            /\ \A m \in 1..Len(messages) :
                  ( /\ Len(messages[m].data_bytes) = Len(ref)
                    /\ HammingDistance(ref, messages[m].data_bytes) >= 1
                    /\ HammingDistance(ref, messages[m].data_bytes) <= call.max_differences )
                  => \E k \in 1..Len(result) :
                        result[k][1] = data_signature(messages[m])

\* two records of a signature two tokens away, then a record of a signature
\* one token away: the later one is returned first, the earlier one once
C16_Witness ==
    /\ SimilarReturned
    /\ Len(messages) = 3
    /\ data_signature(messages[1]) = data_signature(messages[2])
    /\ Len(Split(call.reference_pattern)) = 2
    /\ Len(messages[1].data_bytes) = 2
    /\ Len(messages[3].data_bytes) = 2
    /\ HammingDistance(Split(call.reference_pattern), messages[1].data_bytes) = 2
    /\ HammingDistance(Split(call.reference_pattern), messages[3].data_bytes) = 1
    /\ result = << <<data_signature(messages[3]), 1>>, <<data_signature(messages[1]), 2>> >>

----------------------------------------------------------------------------
(* C17 *)

FilterReturned == call.op = "filter_by_unique_data_after" /\ call.returned
StatisticsReturned == call.op = "_collect_pattern_statistics" /\ call.returned

\* the records of a signature, and the least of their timestamps
RecordsOf(sig) == {i \in 1..Len(messages) : data_signature(messages[i]) = sig}
MinTimestamp(sig) ==
    CHOOSE t \in {messages[i].timestamp : i \in RecordsOf(sig)} :
        \A i \in RecordsOf(sig) : t <= messages[i].timestamp

\* C17: the first-occurrence time of a signature, in the gate of
\* filter_by_unique_data_after and in the pattern statistics, is the least
\* timestamp of the records of the signature.
C17_FirstIsMinimum ==
    /\ FilterReturned =>
          \A k \in 1..Len(result.first_occurrence) :
              result.first_occurrence[k].first_time
                  = MinTimestamp(result.first_occurrence[k].pattern)
    /\ StatisticsReturned =>
          \A k \in 1..Len(result) :
              result[k].first_time = MinTimestamp(result[k].pattern)

----------------------------------------------------------------------------
(* C18 *)

\* the timestamp of the first record of a signature, in record order
FirstInOrder(sig) ==
    messages[CHOOSE i \in RecordsOf(sig) : \A j \in RecordsOf(sig) : i <= j].timestamp

\* the positions of the records whose signature is first seen, in record
\* order, at or after the threshold
KeptPositions ==
    {i \in 1..Len(messages) :
        FirstInOrder(data_signature(messages[i])) >= call.min_timestamp}

\* C18: the filter returns, in record order, every record of every
\* signature whose first record is at or after the threshold, also the
\* records of such a signature that are themselves before the threshold, and
\* no record of another signature.
C18_AllOrNothing ==
    FilterReturned =>
        /\ Len(result.filtered_messages) = Cardinality(KeptPositions)
        /\ \A k \in 1..Len(result.filtered_messages) :
              \E i \in KeptPositions :
                  /\ Cardinality({j \in KeptPositions : j < i}) = k - 1
                  /\ result.filtered_messages[k] = messages[i]

\* a signature first seen after the threshold and seen again before it:
\* both records are returned; the record of a signature first seen before
\* the threshold is not
C18_Witness ==
    /\ FilterReturned
    /\ Len(messages) = 3
    /\ \E a \in 1..3, b \in 1..3, c \in 1..3 :
          /\ a < b
          /\ data_signature(messages[a]) = data_signature(messages[b])
          /\ messages[a].timestamp >= call.min_timestamp
          /\ messages[b].timestamp < call.min_timestamp
          /\ data_signature(messages[c]) # data_signature(messages[a])
          /\ messages[c].timestamp < call.min_timestamp
          /\ result.filtered_messages = <<messages[a], messages[b]>>

----------------------------------------------------------------------------
(* C4 *)

NearestReturned == call.op = "_nearest_delta" /\ call.returned

\* C4: None exactly for the empty list; otherwise x - target for an element
\* x of the list that no element of the list is nearer to the target than.
C4_NearestIsLinearMinimum ==
    NearestReturned =>
        /\ (result = None) <=> (call.sorted_ts = <<>>)
        /\ call.sorted_ts # <<>> =>
              \E i \in 1..Len(call.sorted_ts) :
                  /\ result = Some(call.sorted_ts[i] - call.target)
                  /\ \A j \in 1..Len(call.sorted_ts) :
                        Abs(call.sorted_ts[i] - call.target)
                            <= Abs(call.sorted_ts[j] - call.target)

\* a list with a repeated value and a target strictly inside it whose
\* nearest element is the left neighbour of the insertion point
C4_Witness ==
    /\ NearestReturned
    /\ Len(call.sorted_ts) = 3
    /\ call.sorted_ts[1] = call.sorted_ts[2]
    /\ call.sorted_ts[2] < call.target
    /\ call.target < call.sorted_ts[3]
    /\ result = Some(call.sorted_ts[2] - call.target)
    /\ call.target - call.sorted_ts[2] < call.sorted_ts[3] - call.target

----------------------------------------------------------------------------
(* Reference definitions for the properties of find_command_candidates *)

Returned == call.op = "find_command_candidates" /\ call.returned

Signatures == {data_signature(messages[i]) : i \in 1..Len(messages)}
Occurrences(sig) == {i \in 1..Len(messages) : data_signature(messages[i]) = sig}
ResultSignatures == {result[i].data_signature : i \in 1..Len(result)}

\* a timestamp within search_radius of some fire time of the call
NearSomeFireTime(t) ==
    \E k \in 1..Len(call.fire_times) :
        Abs(t - call.fire_times[k]) <= call.search_radius

\* linear scan: the least distance of an occurrence of sig from time ft
LeastDistance(sig, ft) ==
    LET ds == {Abs(messages[i].timestamp - ft) : i \in Occurrences(sig)}
    IN  CHOOSE d \in ds : \A e \in ds : d <= e

\* the entries of fire_times whose nearest occurrence of sig is within radius
MatchedEntries(sig, fire_times) ==
    {k \in 1..Len(fire_times) : LeastDistance(sig, fire_times[k]) <= call.search_radius}

LinearCoverage(sig) ==
    <<Cardinality(MatchedEntries(sig, call.fire_times)), Len(call.fire_times)>>

\* the surviving candidates of the call before sorting and truncation
Survivors ==
    IF call.fire_times = <<>> \/ messages = <<>> THEN <<>>
    ELSE Candidates(Items(messages, by_pattern), 1, SortFireTimes(call.fire_times),
            FireTimeWindows(messages, SortFireTimes(call.fire_times), call.search_radius),
            call.search_radius, call.min_coverage, <<"100", "200">>)

----------------------------------------------------------------------------
(* C2 *)

\* C2: hard rejection. Every occurrence of every returned signature lies
\* within search_radius of some fire time: a signature with one occurrence
\* farther than search_radius from every fire time is never returned.
C2_HardRejection ==
    Returned =>
        \A sig \in Signatures :
            (\E i \in Occurrences(sig) : ~NearSomeFireTime(messages[i].timestamp))
                => sig \notin ResultSignatures

\* a signature with one occurrence exactly at a fire time and another one
\* outside every window, next to a signature that is returned
C2_Witness ==
    /\ Returned
    /\ result # <<>>
    /\ \E sig \in Signatures :
          /\ \E i \in Occurrences(sig), k \in 1..Len(call.fire_times) :
                messages[i].timestamp = call.fire_times[k]
          /\ \E i \in Occurrences(sig) : ~NearSomeFireTime(messages[i].timestamp)

----------------------------------------------------------------------------
(* C3 *)

\* C3: the coverage of a returned candidate is the number of fire times
\* whose nearest occurrence of the signature is within search_radius, over
\* the number of fire times; it is at least min_coverage, and no signature
\* whose coverage is below min_coverage is returned.
C3_Coverage ==
    Returned =>
        /\ \A i \in 1..Len(result) :
              /\ result[i].coverage = LinearCoverage(result[i].data_signature)
              /\ ~FracLess(result[i].coverage, call.min_coverage)
        /\ \A sig \in Signatures :
              FracLess(LinearCoverage(sig), call.min_coverage)
                  => sig \notin ResultSignatures

\* a candidate returned with partial coverage, one match being at exactly
\* search_radius, and a signature dropped for its coverage alone
C3_Witness ==
    /\ Returned
    /\ call.search_radius > 0
    /\ \E i \in 1..Len(result) :
          /\ result[i].coverage[1] < result[i].coverage[2]
          /\ \E k \in 1..Len(call.fire_times) :
                LeastDistance(result[i].data_signature, call.fire_times[k])
                    = call.search_radius
    /\ \E sig \in Signatures :
          /\ \A j \in Occurrences(sig) : NearSomeFireTime(messages[j].timestamp)
          /\ FracLess(LinearCoverage(sig), call.min_coverage)

----------------------------------------------------------------------------
(* C5 *)

\* C5: the returned list is ordered by non-increasing confidence, has at
\* most max_candidates elements, and is a prefix of the ranking: it holds
\* min(max_candidates, number of survivors) candidates and no survivor that
\* was cut off has a confidence above that of a returned candidate.
C5_RankedPrefix ==
    Returned =>
        LET survivors == Survivors
            returned == ResultSignatures
        IN
        /\ \A i \in 1..Len(result), j \in 1..Len(result) :
              i < j => ~FracLess(result[i].confidence, result[j].confidence)
        /\ Len(result) <= call.max_candidates
        /\ Len(result) = IF Len(survivors) < call.max_candidates
                         THEN Len(survivors) ELSE call.max_candidates
        /\ \A i \in 1..Len(result) :
              \E j \in 1..Len(survivors) :
                  /\ survivors[j].data_signature = result[i].data_signature
                  /\ survivors[j].confidence = result[i].confidence
        /\ \A j \in 1..Len(survivors) :
              survivors[j].data_signature \notin returned
                  => \A i \in 1..Len(result) :
                        ~FracLess(result[i].confidence, survivors[j].confidence)

\* two survivors, the later discovered one with the higher confidence, and
\* room for one candidate only
C5_Witness ==
    /\ Returned
    /\ call.max_candidates = 1
    /\ Len(Survivors) = 2
    /\ FracLess(Survivors[1].confidence, Survivors[2].confidence)
    /\ Len(result) = 1

----------------------------------------------------------------------------
(* C6 *)

\* every fire time is the timestamp of an occurrence of sig, and every
\* occurrence of sig is within search_radius of a fire time
PerfectlyAligned(sig) ==
    /\ \A k \in 1..Len(call.fire_times) :
          \E i \in Occurrences(sig) : messages[i].timestamp = call.fire_times[k]
    /\ \A i \in Occurrences(sig) : NearSomeFireTime(messages[i].timestamp)

\* the three rows of the example: AA BB at 10 s and 12 s, FF 00 at 20 s,
\* fire times [10.0, 12.0], radius 0.5 s, min_coverage 1.0
IsExample ==
    /\ Len(messages) = 3
    /\ messages[1].raw_line = <<"0", "100", "N", "2", "AA", "BB", "10.000000", "R">>
    /\ messages[2].raw_line = <<"0", "100", "N", "2", "AA", "BB", "12.000000", "R">>
    /\ messages[3].raw_line = <<"0", "200", "N", "2", "FF", "00", "20.000000", "R">>
    /\ call.fire_times = <<10 * TicksPerSecond, 12 * TicksPerSecond>>
    /\ 2 * call.search_radius = TicksPerSecond
    /\ call.min_coverage = <<1, 1>>

\* C6: a perfectly aligned signature is returned with coverage 1.0, median
\* delta 0.0 and confidence 1.0 (search_radius >= 0, min_coverage <= 1,
\* max_candidates at least the number of signatures); in the three-row
\* example exactly one candidate, AA BB, is returned.
C6_PerfectAlignment ==
    Returned =>
        /\ \A sig \in Signatures :
              ( /\ PerfectlyAligned(sig)
                /\ call.search_radius >= 0
                /\ ~FracLess(<<1, 1>>, call.min_coverage)
                /\ call.max_candidates >= Cardinality(Signatures) )
              => \E i \in 1..Len(result) :
                    /\ result[i].data_signature = sig
                    /\ FracEq(result[i].coverage, <<1, 1>>)
                    /\ FracEq(result[i].median_abs_delta, <<0, 1>>)
                    /\ FracEq(result[i].confidence, <<1, 1>>)
        /\ IsExample =>
              /\ Len(result) = 1
              /\ result[1].data_signature = <<"AA", " ", "BB">>
              /\ FracEq(result[1].coverage, <<1, 1>>)
              /\ FracEq(result[1].confidence, <<1, 1>>)

\* the example, called with room for both signatures
C6_Witness ==
    /\ Returned
    /\ IsExample
    /\ call.max_candidates = 2
    /\ PerfectlyAligned(<<"AA", " ", "BB">>)

----------------------------------------------------------------------------
(* C7 *)

\* C7: the call returns a list of well-defined candidates, and the empty
\* list when fire_times is empty, when there are no records, or when
\* min_coverage is above the coverage of every signature.
C7_DegradesToEmpty ==
    Returned =>
        /\ \A i \in 1..Len(result) :
              result[i].coverage[2] # 0 /\ result[i].confidence[2] # 0
        /\ ( \/ call.fire_times = <<>>
             \/ messages = <<>>
             \/ \A sig \in Signatures :
                   FracLess(LinearCoverage(sig), call.min_coverage) )
           => result = <<>>

\* records and fire times, a signature that passes the window gate and
\* matches a fire time, and min_coverage above every coverage
C7_Witness ==
    /\ Returned
    /\ messages # <<>>
    /\ call.fire_times # <<>>
    /\ \A sig \in Signatures : FracLess(LinearCoverage(sig), call.min_coverage)
    /\ \E sig \in Signatures :
          /\ \A j \in Occurrences(sig) : NearSomeFireTime(messages[j].timestamp)
          /\ LinearCoverage(sig)[1] > 0
    /\ result = <<>>

----------------------------------------------------------------------------
(* C8 *)

\* the distinct values of fire_times, ascending
Distinct(fire_times) ==
    LET vals == {fire_times[k] : k \in 1..Len(fire_times)}
        nth(p) == CHOOSE v \in vals : Cardinality({w \in vals : w < v}) = p - 1
    IN  [p \in 1..Cardinality(vals) |-> nth(p)]

\* every distinct value occurs equally often in fire_times
EquallyRepeated(fire_times) ==
    \A a \in 1..Len(fire_times), b \in 1..Len(fire_times) :
        Cardinality({k \in 1..Len(fire_times) : fire_times[k] = fire_times[a]})
        = Cardinality({k \in 1..Len(fire_times) : fire_times[k] = fire_times[b]})

\* the candidates the call returns for the distinct values of its fire times
ResultForDistinct ==
    find_command_candidates(messages, by_pattern, Distinct(call.fire_times),
        call.search_radius, call.min_coverage, call.max_candidates,
        <<"100", "200">>)

\* same signatures in the same order, same coverage and confidence
SameCandidates(r1, r2) ==
    /\ Len(r1) = Len(r2)
    /\ \A i \in 1..Len(r1) :
          /\ r1[i].data_signature = r2[i].data_signature
          /\ FracEq(r1[i].coverage, r2[i].coverage)
          /\ FracEq(r1[i].confidence, r2[i].confidence)

\* C8 as stated: a list with repeated values gives the candidates, coverage
\* and confidence of the list of its distinct values.
C8_Deduplicated == Returned => SameCandidates(result, ResultForDistinct)

\* C8 amended: the fire times are sorted, not deduplicated; every entry
\* counts in the matched count and in the denominator.  A list gives the
\* candidates of its distinct values when every distinct value is repeated
\* equally often.
C8_EquallyRepeated ==
    Returned =>
        (EquallyRepeated(call.fire_times)
            => SameCandidates(result, ResultForDistinct))

\* a repeated fire time, and a candidate returned
C8_Witness ==
    /\ Returned
    /\ EquallyRepeated(call.fire_times)
    /\ Len(Distinct(call.fire_times)) < Len(call.fire_times)
    /\ result # <<>>

----------------------------------------------------------------------------
(* C19 *)

\* the distances, in ticks, from the matched entries of the fire times of
\* the call to the nearest record of sig, in the order of the entries
MatchedDistances(sig) ==
    LET K == MatchedEntries(sig, call.fire_times)
        nth(p) == CHOOSE k \in K : Cardinality({j \in K : j < k}) = p - 1
    IN  [p \in 1..Cardinality(K) |-> LeastDistance(sig, call.fire_times[nth(p)])]

\* the r-th smallest element of a list
Smallest(xs, r) ==
    CHOOSE v \in {xs[p] : p \in 1..Len(xs)} :
        /\ Cardinality({p \in 1..Len(xs) : xs[p] < v}) < r
        /\ Cardinality({p \in 1..Len(xs) : xs[p] <= v}) >= r

\* median, mean and maximum of a non-empty list of ticks, in seconds
MedianOf(xs) ==
    IF Len(xs) % 2 = 1
    THEN <<Smallest(xs, (Len(xs) + 1) \div 2), TicksPerSecond>>
    ELSE <<Smallest(xs, Len(xs) \div 2) + Smallest(xs, Len(xs) \div 2 + 1),
           2 * TicksPerSecond>>
MeanOf(xs) == <<SumSeq(xs), Len(xs) * TicksPerSecond>>
MaximumOf(xs) == <<Smallest(xs, Len(xs)), TicksPerSecond>>

\* 1 / (1 + m) and 0.7 * c + 0.3 * t for fractions m, c, t
TightnessOf(m) == <<m[2], m[2] + m[1]>>
ConfidenceOf(c, t) == <<7 * c[1] * t[2] + 3 * t[1] * c[2], 10 * c[2] * t[2]>>

\* C19: for every returned candidate the three delta statistics are the
\* median, the mean and the maximum of the distances of the matched fire
\* times; tightness = 1 / (1 + median) is in (0, 1]; the confidence is
\* 0.7 * coverage + 0.3 * tightness and lies in (0, 1]; the maximum is at
\* most search_radius.
C19_DeltaStatistics ==
    Returned =>
        \A i \in 1..Len(result) :
            LET ds == MatchedDistances(result[i].data_signature)
                tightness == TightnessOf(MedianOf(ds))
            IN  /\ ds # <<>>
                /\ FracEq(result[i].median_abs_delta, MedianOf(ds))
                /\ FracEq(result[i].avg_abs_delta, MeanOf(ds))
                /\ FracEq(result[i].max_abs_delta, MaximumOf(ds))
                /\ FracLess(<<0, 1>>, tightness)
                /\ ~FracLess(<<1, 1>>, tightness)
                /\ FracEq(result[i].confidence,
                          ConfidenceOf(LinearCoverage(result[i].data_signature), tightness))
                /\ FracLess(<<0, 1>>, result[i].confidence)
                /\ ~FracLess(<<1, 1>>, result[i].confidence)
                /\ ~FracLess(<<call.search_radius, TicksPerSecond>>, result[i].max_abs_delta)

\* a candidate with three matched fire times whose median, mean and
\* maximum are three different numbers, the maximum being the radius
C19_Witness ==
    /\ Returned
    /\ \E i \in 1..Len(result) :
          /\ result[i].coverage[1] = 3
          /\ FracLess(result[i].median_abs_delta, result[i].avg_abs_delta)
          /\ FracLess(result[i].avg_abs_delta, result[i].max_abs_delta)
          /\ FracEq(result[i].max_abs_delta, <<call.search_radius, TicksPerSecond>>)

----------------------------------------------------------------------------
(* C20 *)

\* the signatures all of whose records are within search_radius of a fire
\* time of the call
PassingGate ==
    {sig \in Signatures :
        \A i \in Occurrences(sig) : NearSomeFireTime(messages[i].timestamp)}

\* C20: every returned candidate has at least one matched fire time, a
\* fire-time count above zero, finite delta statistics and a tightness
\* above 0 (a confidence above 0.7 * coverage); with min_coverage = 0 every
\* signature that passes the gate is returned, with a match.
C20_NeverWithoutMatch ==
    Returned =>
        /\ \A i \in 1..Len(result) :
              /\ result[i].coverage[1] >= 1
              /\ result[i].coverage[2] = Len(call.fire_times)
              /\ result[i].coverage[2] >= 1
              /\ result[i].median_abs_delta[2] # 0
              /\ result[i].avg_abs_delta[2] # 0
              /\ result[i].max_abs_delta[2] # 0
              /\ FracLess(<<7 * result[i].coverage[1], 10 * result[i].coverage[2]>>,
                          result[i].confidence)
        /\ ( /\ call.min_coverage = <<0, 1>>
             /\ call.fire_times # <<>>
             /\ Cardinality(Signatures) <= call.max_candidates )
           => /\ ResultSignatures = PassingGate
              /\ \A sig \in PassingGate : MatchedEntries(sig, call.fire_times) # {}

\* min_coverage = 0, a signature that passes the gate with fewer matches
\* than fire times, and a signature that does not pass
C20_Witness ==
    /\ Returned
    /\ call.min_coverage = <<0, 1>>
    /\ Len(result) = 1
    /\ result[1].coverage[1] < result[1].coverage[2]
    /\ Cardinality(Signatures) = 2

----------------------------------------------------------------------------
(* C21 *)

\* the least matched fire time of sig in the call
FirstMatchedFireTime(sig) ==
    LET fts == {call.fire_times[k] : k \in MatchedEntries(sig, call.fire_times)}
    IN  CHOOSE ft \in fts : \A other \in fts : ft <= other

\* C21: the sample of a returned candidate is the record matched to the
\* least matched fire time: sample_timestamp is the timestamp of a record
\* of the signature nearest to that fire time, and sample_line is the line
\* of a record of the signature whose timestamp is sample_timestamp.
C21_SampleIsMatchedRecord ==
    Returned =>
        \A i \in 1..Len(result) :
            LET sig == result[i].data_signature
                ft == FirstMatchedFireTime(sig)
            IN  /\ MatchedEntries(sig, call.fire_times) # {}
                /\ \E j \in Occurrences(sig) :
                      /\ messages[j].timestamp = result[i].sample_timestamp
                      /\ Abs(messages[j].timestamp - ft) = LeastDistance(sig, ft)
                /\ \E j \in Occurrences(sig) :
                      /\ messages[j].timestamp = result[i].sample_timestamp
                      /\ messages[j].line_number = result[i].sample_line

----------------------------------------------------------------------------
(* C22 *)

\* the least distance of an element of the list from the target
LeastDistanceTo(sorted_ts, target) ==
    CHOOSE d \in {Abs(sorted_ts[i] - target) : i \in 1..Len(sorted_ts)} :
        \A i \in 1..Len(sorted_ts) : d <= Abs(sorted_ts[i] - target)

\* an element before the target and an element after it are equally far
\* from it, and no element is nearer
Tied(sorted_ts, target) ==
    /\ sorted_ts # <<>>
    /\ \E i \in 1..Len(sorted_ts), j \in 1..Len(sorted_ts) :
          /\ sorted_ts[i] < target
          /\ target < sorted_ts[j]
          /\ target - sorted_ts[i] = LeastDistanceTo(sorted_ts, target)
          /\ sorted_ts[j] - target = LeastDistanceTo(sorted_ts, target)

\* C22 as stated: on a tie the earlier (left) element is taken and the
\* delta returned is negative.
C22_TieToLeft ==
    (NearestReturned /\ Tied(call.sorted_ts, call.target))
        => result = Some(-LeastDistanceTo(call.sorted_ts, call.target))

\* C22 amended: on a tie the later (right) element, the one at the
\* insertion point, is taken on every input, and the delta returned is
\* positive.
C22_TieToRight ==
    (NearestReturned /\ Tied(call.sorted_ts, call.target))
        => result = Some(LeastDistanceTo(call.sorted_ts, call.target))

\* three elements, the target halfway between the last two
C22_Witness ==
    /\ NearestReturned
    /\ Len(call.sorted_ts) = 3
    /\ call.sorted_ts[1] < call.sorted_ts[2]
    /\ call.target - call.sorted_ts[2] = call.sorted_ts[3] - call.target
    /\ call.target > call.sorted_ts[2]
    /\ Tied(call.sorted_ts, call.target)
    /\ result = Some(call.sorted_ts[3] - call.target)

----------------------------------------------------------------------------
(* C23 *)

\* the group of each signature holds the positions of its records, in
\* input order, and every signature has one group
IndexInInputOrder ==
    /\ \A p \in 1..Len(by_pattern) :
          /\ {by_pattern[p].refs[k] : k \in 1..Len(by_pattern[p].refs)}
                = Occurrences(by_pattern[p].pattern)
          /\ \A k \in 1..(Len(by_pattern[p].refs) - 1) :
                by_pattern[p].refs[k] < by_pattern[p].refs[k + 1]
    /\ {by_pattern[p].pattern : p \in 1..Len(by_pattern)} = Signatures
    /\ Len(by_pattern) = Cardinality(Signatures)

\* C23: after the construction and after every sequence of queries the
\* analyzer holds the records it was given, in the same order, each group
\* of the index holds the records of its signature in input order, and a
\* query asked again is answered as before.
C23_QueriesLeaveRecords ==
    /\ messages = call.given
    /\ IndexInInputOrder
    /\ \A i \in 1..Len(call.history), j \in 1..Len(call.history) :
          ( /\ call.history[i].op = call.history[j].op
            /\ call.history[i].args = call.history[j].args )
          => call.history[i].result = call.history[j].result

\* two records of one signature given against their time order, under two
\* identifiers; the same find_command_candidates query answered twice with
\* a candidate
C23_Witness ==
    /\ Len(call.history) = 2
    /\ call.history[1].op = "find_command_candidates"
    /\ call.history[2] = call.history[1]
    /\ call.history[1].result # <<>>
    /\ \E i \in 1..Len(messages), j \in 1..Len(messages) :
          /\ i < j
          /\ data_signature(messages[i]) = data_signature(messages[j])
          /\ messages[i].timestamp > messages[j].timestamp
          /\ messages[i].can_id # messages[j].can_id

----------------------------------------------------------------------------
(* C24 *)

\* the records of the parse_file call made last
LastParsed == call.history[Len(call.history)]

\* C24: after any sequence of parse_file calls the parser holds the records
\* of the last call and nothing of the calls before it, no record when the
\* file of the last call could not be opened; an analyzer created earlier
\* holds the records the parser held when it was created.
C24_ReplacesNotAppends ==
    ("history" \in DOMAIN call /\ "created_after" \in DOMAIN call) =>
        /\ call.history # <<>> =>
              /\ parser_messages = parse_file(call.which, LastParsed.file).messages
              /\ ~LastParsed.file.exists => parser_messages = <<>>
        /\ call.created_after # None =>
              /\ messages = IF call.created_after[1] = 0 THEN <<>>
                            ELSE call.history[call.created_after[1]].messages
              /\ by_pattern = IndexByPattern(messages)

\* a log of two records parsed, an analyzer created, then a missing file
\* parsed: the parser holds no record, the analyzer the two
C24_Witness ==
    /\ call.op = "parse_file"
    /\ call.created_after = Some(1)
    /\ Len(call.history) = 2
    /\ Len(call.history[1].messages) = 2
    /\ ~call.history[2].file.exists
    /\ parser_messages = <<>>
    /\ Len(messages) = 2

====
